---- MODULE Spec2Model ----
(***************************************************************************)
(* Model of the HTTP transport and token-refresh coordination of the       *)
(* YorAuth JS SDK: HttpClient (src/src/http.ts) wired to the credential     *)
(* fields of the YorAuth client (src/src/client.ts).                        *)
(*                                                                         *)
(* JavaScript runs the client single-threaded; logical requests interleave *)
(* only at their await points.  Every action below is one run-to-          *)
(* suspension step of one async function chain: it starts where an await   *)
(* resumes and ends at the next await that needs the network.              *)
(***************************************************************************)
EXTENDS Integers, Sequences, FiniteSets, TLC

\* Number of logical request() calls issued on the one HttpClient.
NumReq == 2

Req == 1..NumReq

\* `undefined` (a credential that is not set, an absent value).
Undefined == <<>>

\* `null`, the value of refreshPromise when no refresh is pending.
Null == 0

VARIABLES
    token,          \* YorAuth.token
    apiKey,         \* YorAuth.apiKey
    refreshToken,   \* YorAuth.refreshToken
    tokenRefreshedCallback, \* YorAuth.tokenRefreshedCallback: "none", "returns", "throws"
    isRefreshing,   \* HttpClient.isRefreshing
    refreshPromise, \* HttpClient.refreshPromise: Null or the id of a refresh
    refreshes,      \* every doRefresh() promise created so far, by id
    pc,             \* where each request() call is suspended
    error,          \* the `error` caught by request()'s outer catch
    awaiting,       \* the refresh promise a request awaits (Null if none)
    result,         \* how each request() call settled
    sent,           \* per request: the headers of every dispatch to its own URL
    at401,          \* per request: what it saw when it observed its 401
    observed,       \* per request: what attemptTokenRefresh delivered to it
    retryOutcome,   \* per request: what the network answered to its retry
    wire,           \* per request: the request part of every dispatch to its URL
    att,            \* one doRequest call followed step by step (AttemptSpec)
    ctor            \* one `new YorAuth(config)` call (ConstructSpec)

\* The state of the refresh coordination.
coord == <<token, apiKey, refreshToken, tokenRefreshedCallback, isRefreshing,
           refreshPromise, refreshes, pc, error, awaiting, result, sent, at401,
           observed, retryOutcome, wire>>

vars == <<coord, att, ctor>>

creds == <<token, apiKey, refreshToken>>

-----------------------------------------------------------------------------
(* Values *)

AccessToken(n) == <<"access", n>>
RefreshTokenOf(n) == <<"refresh", n>>
TheApiKey == <<"key">>

\* The call a response or an error comes from: the server chooses message and
\* body per response, so each call's message is its own.
ReqTag(r, attempt) == <<"req", r, attempt>>
RefreshTag(id) == <<"refresh", id>>

Pending == [kind |-> "pending"]
None == [kind |-> "none"]

YorAuthError(message, code, status) ==
    [kind |-> "YorAuthError", message |-> message, code |-> code, status |-> status]

TypeError == [kind |-> "TypeError"]

\* `undefined` as the value doRequest returns for 204 and non-JSON 2xx.
NoValue == [kind |-> "undefined"]

Resolved(v) == [kind |-> "value", value |-> v]
Rejected(e) == [kind |-> "error", error |-> e]

\* What the network can answer to a call.
Response(status, isJson, body) ==
    [kind |-> "response", status |-> status, isJson |-> isJson, body |-> body]
Aborted == [kind |-> "abort"]
NetworkFailure == [kind |-> "network"]

ReqOutcomes ==
    { Response(200, TRUE, "data"), Response(401, TRUE, "error"),
      Response(500, TRUE, "error"), Aborted, NetworkFailure }

RefreshOutcomes ==
    { Response(200, TRUE, "data"), Response(200, TRUE, "nodata"),
      Response(204, FALSE, "empty"), Response(200, FALSE, "text"),
      Response(401, TRUE, "error"), Response(500, TRUE, "error"),
      Aborted, NetworkFailure }

-----------------------------------------------------------------------------
(* doRequest *)

AuthHeaders_Both(tok, key) ==
    [Authorization |-> IF tok # Undefined THEN <<"Bearer", tok>> ELSE Undefined,
     XApiKey |-> key]

\* Authentication: prefer Bearer token, fall back to API key.
AuthHeaders(tok, key) ==
    IF tok # Undefined
    THEN [Authorization |-> <<"Bearer", tok>>, XApiKey |-> Undefined]
    ELSE IF key # Undefined
         THEN [Authorization |-> Undefined, XApiKey |-> key]
         ELSE [Authorization |-> Undefined, XApiKey |-> Undefined]

\* response.ok
ResponseOk(status) == status >= 200 /\ status < 300

\* handleErrorResponse for the API's `{error: {message, code}}` body: the
\* message and the code are the ones the server put in this response.
HandleErrorResponse(tag, response) ==
    YorAuthError(tag, <<"CODE", response.status>>, response.status)

\* What doRequest settles with once the network has answered `outcome`.
DoRequest(tag, outcome) ==
    IF outcome.kind = "abort"
    THEN Rejected(YorAuthError(<<"timed out", tag>>, "REQUEST_TIMEOUT", 0))
    ELSE IF outcome.kind = "network"
    THEN Rejected(YorAuthError(<<"network", tag>>, "NETWORK_ERROR", 0))
    ELSE IF outcome.status = 204
    THEN Resolved(NoValue)
    ELSE IF ~ResponseOk(outcome.status)
    THEN Rejected(HandleErrorResponse(tag, outcome))
    ELSE IF outcome.isJson
    THEN Resolved([kind |-> "json", body |-> outcome.body, from |-> tag])
    ELSE Resolved(NoValue)

-----------------------------------------------------------------------------
(* State *)

\* The configurations the client is constructed with, and the callback
\* registered with onTokenRefreshed before the requests are issued.
Config(t, k, rt, cb) ==
    [token |-> t, apiKey |-> k, refreshToken |-> rt, callback |-> cb]

Configs ==
    { Config(AccessToken(0), Undefined, RefreshTokenOf(0), "returns"),
      Config(AccessToken(0), Undefined, RefreshTokenOf(0), "throws"),
      Config(Undefined, TheApiKey, RefreshTokenOf(0), "none"),
      Config(AccessToken(0), TheApiKey, Undefined, "none"),
      Config(AccessToken(0), Undefined, Undefined, "none"),
      Config(Undefined, TheApiKey, Undefined, "none"),
      Config(Undefined, Undefined, Undefined, "none") }

Init ==
    /\ \E c \in Configs :
          /\ token = c.token
          /\ apiKey = c.apiKey
          /\ refreshToken = c.refreshToken
          /\ tokenRefreshedCallback = c.callback
    /\ isRefreshing = FALSE
    /\ refreshPromise = Null
    /\ refreshes = <<>>
    /\ pc = [r \in Req |-> "idle"]
    /\ error = [r \in Req |-> None]
    /\ awaiting = [r \in Req |-> Null]
    /\ result = [r \in Req |-> Pending]
    /\ sent = [r \in Req |-> <<>>]
    /\ at401 = [r \in Req |-> None]
    /\ observed = [r \in Req |-> None]
    /\ retryOutcome = [r \in Req |-> None]
    /\ wire = [r \in Req |-> <<>>]
    /\ att = None
    /\ ctor = None

\* A part of the arguments the caller left out.
Absent == "undefined"

\* The arguments (method, url, options) of the request() call numbered r:
\* a GET with query parameters, one of them undefined, and an extra header;
\* or a POST with a body and caller-supplied Accept and Content-Type.
ArgsOf(r) ==
    IF r % 2 = 1
    THEN [method |-> "GET", url |-> r, page |-> "1", filter |-> Absent,
          accept |-> Absent, contentType |-> Absent, xTrace |-> "abc",
          body |-> Absent]
    ELSE [method |-> "POST", url |-> r, page |-> Absent, filter |-> Absent,
          accept |-> "text/csv", contentType |-> "text/plain", xTrace |-> Absent,
          body |-> "payload"]

\* doRequest, the part of the call that does not depend on the credentials:
\* <<method, URL, query parameters page and filter, headers Accept,
\* Content-Type and X-Trace, body>>.  Accept defaults to application/json,
\* Content-Type is forced when there is a body, the body is serialized.
BuildRequest(args) ==
    <<args.method, args.url, args.page, args.filter,
      IF args.accept # Absent THEN args.accept ELSE "application/json",
      IF args.body # Absent THEN "application/json" ELSE args.contentType,
      args.xTrace,
      IF args.body # Absent THEN "JSON of " \o args.body ELSE Absent>>

RetryArguments_MethodAndUrlOnly(args) ==
    [args EXCEPT !.page = Absent, !.filter = Absent, !.accept = Absent,
                 !.contentType = Absent, !.xTrace = Absent, !.body = Absent]

\* The retry is called with the arguments request() itself was called with.
RetryArguments(args) == args

\* request(): the first doRequest runs synchronously up to its fetch().
\* Requests are numbered in the order in which they are issued.
Request(r) ==
    /\ UNCHANGED <<att, ctor>>
    /\ wire' = [wire EXCEPT ![r] = Append(@, BuildRequest(ArgsOf(r)))]
    /\ pc[r] = "idle"
    /\ \A q \in Req : q < r => pc[q] # "idle"
    /\ pc' = [pc EXCEPT ![r] = "first"]
    /\ sent' = [sent EXCEPT ![r] = Append(@, AuthHeaders(token, apiKey))]
    /\ UNCHANGED <<creds, tokenRefreshedCallback, isRefreshing, refreshPromise,
                   refreshes, error, awaiting, result, at401, observed,
                   retryOutcome>>

ShouldRefresh_IgnoresRefreshToken(err, rt) ==
    /\ err.kind = "YorAuthError"
    /\ err.status = 401

ShouldRefresh_AnyError(err, rt) ==
    /\ err.kind = "YorAuthError"
    /\ rt # Undefined

\* request()'s outer catch: auto-refresh on 401 if a refresh token is available.
ShouldRefresh(err, rt) ==
    /\ err.kind = "YorAuthError"
    /\ err.status = 401
    /\ rt # Undefined

JoinsPending_Never(handle) == FALSE

\* attemptTokenRefresh's `if (this.refreshPromise)`.
JoinsPending(handle) == handle # Null

\* doRefresh, synchronous part: doRequest builds the refresh call from the
\* credentials of this moment and dispatches it.
NewRefresh(r) ==
    [owner |-> r, settled |-> Pending,
     headers |-> AuthHeaders(token, apiKey),
     body |-> [refresh_token |-> refreshToken],
     hooks |-> 0]

\* attemptTokenRefresh up to its first suspension, called from request r.
AttemptTokenRefresh(r) ==
    IF JoinsPending(refreshPromise)
    THEN /\ awaiting' = [awaiting EXCEPT ![r] = refreshPromise]
         /\ pc' = [pc EXCEPT ![r] = "joined"]
         /\ UNCHANGED <<isRefreshing, refreshPromise, refreshes>>
    ELSE /\ isRefreshing' = TRUE
         /\ refreshes' = Append(refreshes, NewRefresh(r))
         /\ refreshPromise' = Len(refreshes) + 1
         /\ awaiting' = [awaiting EXCEPT ![r] = Len(refreshes) + 1]
         /\ pc' = [pc EXCEPT ![r] = "owner"]

\* The first attempt's network call settles and request() handles it.
FirstSettles(r, o) ==
    /\ UNCHANGED <<att, ctor, wire>>
    /\ pc[r] = "first"
    /\ LET res == DoRequest(ReqTag(r, 1), o) IN
       IF res.kind = "value"
       THEN /\ result' = [result EXCEPT ![r] = res]
            /\ pc' = [pc EXCEPT ![r] = "done"]
            /\ UNCHANGED <<error, awaiting, at401, isRefreshing, refreshPromise,
                           refreshes>>
       ELSE /\ error' = [error EXCEPT ![r] = res.error]
            /\ at401' = [at401 EXCEPT ![r] =
                            IF res.error.status = 401
                            THEN [kind |-> "seen", rt |-> refreshToken,
                                  handle |-> refreshPromise]
                            ELSE @]
            /\ IF ShouldRefresh(res.error, refreshToken)
               THEN /\ AttemptTokenRefresh(r)
                    /\ UNCHANGED result
               ELSE /\ result' = [result EXCEPT ![r] = Rejected(res.error)]
                    /\ pc' = [pc EXCEPT ![r] = "done"]
                    /\ UNCHANGED <<awaiting, isRefreshing, refreshPromise,
                                   refreshes>>
    /\ UNCHANGED <<creds, tokenRefreshedCallback, sent, observed, retryOutcome>>

DoRefresh_AcceptsMissingData(id, o) ==
    LET res == DoRequest(RefreshTag(id), o) IN
    IF res.kind = "error" THEN res
    ELSE Resolved([accessToken |-> AccessToken(id),
                   refreshToken |-> RefreshTokenOf(id)])

\* doRefresh after its doRequest settled: the TokenRefreshResult read from
\* response.data, a TypeError when there is no response.data to read.
DoRefresh(id, o) ==
    LET res == DoRequest(RefreshTag(id), o) IN
    IF res.kind = "error" THEN res
    ELSE IF res.value.kind = "undefined" THEN Rejected(TypeError)
    ELSE IF res.value.body # "data" THEN Rejected(TypeError)
    ELSE Resolved([accessToken |-> AccessToken(id),
                   refreshToken |-> RefreshTokenOf(id)])

RefreshSettles_ClearsOnFailure(id, o) ==
    /\ UNCHANGED <<att, ctor, wire>>
    /\ id \in 1..Len(refreshes)
    /\ refreshes[id].settled = Pending
    /\ refreshes' = [refreshes EXCEPT ![id].settled = DoRefresh(id, o)]
    /\ IF DoRefresh(id, o).kind = "error"
       THEN /\ token' = Undefined
            /\ refreshToken' = Undefined
            /\ UNCHANGED apiKey
       ELSE UNCHANGED creds
    /\ UNCHANGED <<tokenRefreshedCallback, isRefreshing, refreshPromise,
                   pc, error, awaiting, result, sent, at401, observed,
                   retryOutcome>>

RefreshSettles_RecoversOn401(id, o) ==
    /\ UNCHANGED <<att, ctor, wire>>
    /\ id \in 1..Len(refreshes)
    /\ refreshes[id].settled = Pending
    /\ LET res == DoRefresh(id, o)
           settled == [refreshes EXCEPT ![id].settled = res]
       IN refreshes' = IF res.kind = "error" /\ ShouldRefresh(res.error, refreshToken)
                       THEN Append(settled, NewRefresh(refreshes[id].owner))
                       ELSE settled
    /\ UNCHANGED <<creds, tokenRefreshedCallback, isRefreshing, refreshPromise,
                   pc, error, awaiting, result, sent, at401, observed,
                   retryOutcome>>

\* The refresh call's network call settles, and with it the doRefresh promise.
RefreshSettles(id, o) ==
    /\ UNCHANGED <<att, ctor, wire>>
    /\ id \in 1..Len(refreshes)
    /\ refreshes[id].settled = Pending
    /\ refreshes' = [refreshes EXCEPT ![id].settled = DoRefresh(id, o)]
    /\ UNCHANGED <<creds, tokenRefreshedCallback, isRefreshing, refreshPromise,
                   pc, error, awaiting, result, sent, at401, observed,
                   retryOutcome>>

OwnerResumes_KeepsHandle(r) ==
    /\ UNCHANGED <<att, ctor, wire>>
    /\ pc[r] = "owner"
    /\ refreshes[awaiting[r]].settled # Pending
    /\ isRefreshing' = FALSE
    /\ pc' = [pc EXCEPT ![r] = "resumed"]
    /\ UNCHANGED <<creds, tokenRefreshedCallback, refreshPromise, refreshes,
                   error, awaiting, result, sent, at401, observed, retryOutcome>>

\* attemptTokenRefresh of the request that started the refresh resumes from
\* `await this.refreshPromise` and runs its finally block.
OwnerResumes(r) ==
    /\ UNCHANGED <<att, ctor, wire>>
    /\ pc[r] = "owner"
    /\ refreshes[awaiting[r]].settled # Pending
    /\ isRefreshing' = FALSE
    /\ refreshPromise' = Null
    /\ pc' = [pc EXCEPT ![r] = "resumed"]
    /\ UNCHANGED <<creds, tokenRefreshedCallback, refreshes, error, awaiting,
                   result, sent, at401, observed, retryOutcome>>

InnerCatch_RethrowsCaught(original, caught) == caught

\* request()'s inner `catch { throw error; }`.
InnerCatch(original, caught) == original

RetryHeaders_BeforeHook(before, after, key) == AuthHeaders(before, key)

\* The headers of the retry: doRequest runs after onRefreshSuccess returned.
RetryHeaders(before, after, key) == AuthHeaders(after, key)

\* How often request() calls onRefreshSuccess for a refresh result it got.
HookCalls(n) == n + 1

OnRefreshSuccess_CallbackFirst(res, tok, rt, key, cb) ==
    [token |-> res.accessToken,
     refreshToken |-> res.refreshToken,
     callback |-> IF cb = "none" THEN None
                  ELSE [arg |-> res, getToken |-> tok, getRefreshToken |-> rt,
                        getApiKey |-> key]]

\* The onRefreshSuccess hook of the YorAuth client: it stores the new access
\* token, then the new refresh token, then calls the callback registered with
\* onTokenRefreshed, if any, with the result; `callback` is what that callback
\* is given and what the getters return while it runs.  tok and rt are the
\* values stored before.
OnRefreshSuccess(res, tok, rt, key, cb) ==
    LET newToken == res.accessToken
        newRefreshToken == res.refreshToken
    IN [token |-> newToken,
        refreshToken |-> newRefreshToken,
        callback |-> IF cb = "none" THEN None
                     ELSE [arg |-> res, getToken |-> newToken,
                           getRefreshToken |-> newRefreshToken,
                           getApiKey |-> key]]

\* request() resumes from `await this.attemptTokenRefresh()`.  The promise
\* reaction of the starting request was registered first, so a joined request
\* resumes only after the starter's finally block has run.
AfterRefresh(r) ==
    /\ UNCHANGED <<att, ctor>>
    /\ pc[r] \in {"resumed", "joined"}
    /\ LET id == awaiting[r]
           p == refreshes[id].settled
       IN
       /\ p # Pending
       /\ pc[r] = "joined" => pc[refreshes[id].owner] # "owner"
       /\ observed' = [observed EXCEPT ![r] =
                          [id |-> id, outcome |-> p,
                           callback |->
                               IF p.kind = "error" THEN None
                               ELSE OnRefreshSuccess(p.value, token, refreshToken,
                                        apiKey, tokenRefreshedCallback).callback]]
       /\ IF p.kind = "error"
          THEN /\ result' = [result EXCEPT ![r] =
                                Rejected(InnerCatch(error[r], p.error))]
               /\ pc' = [pc EXCEPT ![r] = "done"]
               /\ UNCHANGED <<creds, refreshes, sent>>
          ELSE \* onRefreshSuccess (client.ts): store the pair, call the callback
               /\ token' = OnRefreshSuccess(p.value, token, refreshToken, apiKey,
                                            tokenRefreshedCallback).token
               /\ refreshToken' = OnRefreshSuccess(p.value, token, refreshToken,
                                       apiKey, tokenRefreshedCallback).refreshToken
               /\ refreshes' = [refreshes EXCEPT ![id].hooks = HookCalls(@)]
               /\ UNCHANGED apiKey
               /\ IF tokenRefreshedCallback = "throws"
                  THEN /\ result' = [result EXCEPT ![r] =
                                        Rejected(InnerCatch(error[r],
                                                 [kind |-> "CallbackError"]))]
                       /\ pc' = [pc EXCEPT ![r] = "done"]
                       /\ UNCHANGED sent
                  ELSE /\ sent' = [sent EXCEPT ![r] =
                                      Append(@, RetryHeaders(token, token', apiKey))]
                       /\ pc' = [pc EXCEPT ![r] = "retry"]
                       /\ UNCHANGED result
    /\ wire' = IF /\ refreshes[awaiting[r]].settled.kind = "value"
                  /\ tokenRefreshedCallback # "throws"
               THEN [wire EXCEPT ![r] =
                        Append(@, BuildRequest(RetryArguments(ArgsOf(r))))]
               ELSE wire
    /\ UNCHANGED <<tokenRefreshedCallback, isRefreshing, refreshPromise, error,
                   awaiting, at401, retryOutcome>>

RetrySettles_RecoversAgain(r, o) ==
    /\ UNCHANGED <<att, ctor, wire>>
    /\ pc[r] = "retry"
    /\ retryOutcome' = [retryOutcome EXCEPT ![r] = o]
    /\ LET res == DoRequest(ReqTag(r, 2), o) IN
       IF res.kind = "error" /\ ShouldRefresh(res.error, refreshToken)
       THEN /\ AttemptTokenRefresh(r)
            /\ UNCHANGED result
       ELSE /\ result' = [result EXCEPT ![r] =
                             IF res.kind = "value" THEN res
                             ELSE Rejected(error[r])]
            /\ pc' = [pc EXCEPT ![r] = "done"]
            /\ UNCHANGED <<awaiting, isRefreshing, refreshPromise, refreshes>>
    /\ UNCHANGED <<creds, tokenRefreshedCallback, error, sent, at401, observed>>

\* The retry's network call settles: `return await this.doRequest(...)` sits in
\* the inner try, so a failure of the retry goes through the inner catch.
RetrySettles(r, o) ==
    /\ UNCHANGED <<att, ctor, wire>>
    /\ pc[r] = "retry"
    /\ retryOutcome' = [retryOutcome EXCEPT ![r] = o]
    /\ LET res == DoRequest(ReqTag(r, 2), o) IN
       result' = [result EXCEPT ![r] =
                     IF res.kind = "value" THEN res
                     ELSE Rejected(InnerCatch(error[r], res.error))]
    /\ pc' = [pc EXCEPT ![r] = "done"]
    /\ UNCHANGED <<creds, tokenRefreshedCallback, isRefreshing, refreshPromise,
                   refreshes, error, awaiting, sent, at401, observed>>

Next ==
    \/ \E r \in Req : Request(r)
    \/ \E r \in Req, o \in ReqOutcomes : FirstSettles(r, o)
    \/ \E id \in 1..NumReq, o \in RefreshOutcomes : RefreshSettles(id, o)
    \/ \E r \in Req : OwnerResumes(r)
    \/ \E r \in Req : AfterRefresh(r)
    \/ \E r \in Req, o \in ReqOutcomes : RetrySettles(r, o)

Spec == Init /\ [][Next]_vars

\* The event loop runs every continuation whose promise has settled.
LiveSpec ==
    /\ Spec
    /\ \A r \in Req : WF_vars(OwnerResumes(r)) /\ WF_vars(AfterRefresh(r))

\* In addition no network call stays pending for ever: the network answers
\* it or fails, or its timeout timer cuts it off.
SettlingSpec ==
    /\ LiveSpec
    /\ \A r \in Req : []<>(pc[r] # "first") /\ []<>(pc[r] # "retry")
    /\ \A id \in 1..NumReq :
          []<>(id > Len(refreshes) \/ refreshes[id].settled # Pending)

-----------------------------------------------------------------------------
(* One doRequest call in detail: build, timer, fetch, body, translation *)

\* JSON and JavaScript values.
Str(s) == <<"string", s>>
JsonNull == <<"null">>
Obj(fields) == <<"object", fields>>

\* typeof v
TypeOf(v) ==
    IF v = Undefined THEN "undefined"
    ELSE IF v = JsonNull THEN "object"
    ELSE v[1]

Nullish(v) == v = Undefined \/ v = JsonNull

\* The value counts as true in a condition.
Truthy(v) == ~Nullish(v) /\ v # Str("")

\* a ?? b
Coalesce(a, b) == IF Nullish(a) THEN b ELSE a

\* a || b
OrElse(a, b) == IF Truthy(a) THEN a ELSE b

\* response.statusText
StatusText(status) == <<"string", "status text of ", status>>

\* `HTTP_${response.status}`
HttpCode(status) == <<"string", "HTTP_", status>>

\* new YorAuthError(message, code, status, details)
YorAuthErrorDetails(message, code, status, details) ==
    [kind |-> "YorAuthError", message |-> message, code |-> code,
     status |-> status, details |-> details]

\* A thrown Error object that is no YorAuthError (TypeError, SyntaxError).
Thrown(name, message) == [kind |-> name, isError |-> TRUE, message |-> message]

\* A thrown value that is no Error object.
ThrownValue == [kind |-> "value", isError |-> FALSE]

\* The DOMException fetch rejects with once the signal is aborted.
AbortError == [kind |-> "AbortError", isError |-> TRUE, message |-> Str("Aborted")]

\* The fields of the error object the API puts under `error`.
ErrorObjects ==
    { Obj([message |-> m, code |-> c, details |-> d]) :
        m \in {Undefined, Str("Invalid credentials")},
        c \in {Undefined, Str("AUTH_INVALID_CREDENTIALS")},
        d \in {Undefined, Obj("field errors of error")} }

\* The JSON objects a response body can hold.
JsonObjects ==
    { Obj([error |-> e, message |-> m, errors |-> es, error_description |-> ed]) :
        e \in {Undefined, JsonNull, Str("invalid_grant")} \cup ErrorObjects,
        m \in {Undefined, Str(""), Str("Validation failed")},
        es \in {Undefined, JsonNull, Obj("field errors")},
        ed \in {Undefined, Str("Client authentication failed")} }

\* A response body: what response.json() parses and what response.text() reads.
JsonBody(v) == [raw |-> "json", value |-> v, text |-> Str("json text")]
EmptyBody == [raw |-> "empty", value |-> Undefined, text |-> Str("")]
TextBody == [raw |-> "text", value |-> Undefined, text |-> Str("Internal Server Error")]

Statuses == {200, 204, 400, 401, 422, 503}

Responses ==
    { Response(st, TRUE, b) :
        st \in Statuses,
        b \in {JsonBody(v) : v \in JsonObjects \cup {JsonNull}}
                \cup {EmptyBody, TextBody} }
    \cup { Response(st, FALSE, b) : st \in Statuses, b \in {EmptyBody, TextBody} }

\* await response.json(): the parsed value, or the SyntaxError it throws.
ResponseJson(body) ==
    IF body.raw = "json" THEN Resolved(body.value)
    ELSE IF body.raw = "empty"
    THEN Rejected(Thrown("SyntaxError", Str("Unexpected end of JSON input")))
    ELSE Rejected(Thrown("SyntaxError", Str("Unexpected token")))

ErrorFromJson_StringErrorFirst(b, status) ==
    IF b = JsonNull
    THEN Thrown("TypeError", Str("Cannot read properties of null"))
    ELSE
    LET body == b[2]
        errorObj == body.error
    IN
    IF Truthy(errorObj) /\ TypeOf(errorObj) = "object"
    THEN YorAuthErrorDetails(Coalesce(errorObj[2].message, StatusText(status)),
                             Coalesce(errorObj[2].code, HttpCode(status)),
                             status, errorObj[2].details)
    ELSE IF TypeOf(body.error) = "string"
    THEN YorAuthErrorDetails(Coalesce(body.error_description, body.error),
                             body.error, status, Undefined)
    ELSE IF Truthy(body.message) /\ Truthy(body.errors)
    THEN YorAuthErrorDetails(body.message, Str("VALIDATION_ERROR"), status,
                             body.errors)
    ELSE YorAuthErrorDetails(Coalesce(body.message, StatusText(status)),
                             HttpCode(status), status, Undefined)

\* handleErrorResponse on a parsed JSON body: what it throws.
ErrorFromJson(b, status) ==
    IF b = JsonNull
    THEN Thrown("TypeError", Str("Cannot read properties of null"))
    ELSE
    LET body == b[2]
        errorObj == body.error
    IN
    IF Truthy(errorObj) /\ TypeOf(errorObj) = "object"
    THEN YorAuthErrorDetails(Coalesce(errorObj[2].message, StatusText(status)),
                             Coalesce(errorObj[2].code, HttpCode(status)),
                             status, errorObj[2].details)
    ELSE IF Truthy(body.message) /\ Truthy(body.errors)
    THEN YorAuthErrorDetails(body.message, Str("VALIDATION_ERROR"), status,
                             body.errors)
    ELSE IF TypeOf(body.error) = "string"
    THEN YorAuthErrorDetails(Coalesce(body.error_description, body.error),
                             body.error, status, Undefined)
    ELSE YorAuthErrorDetails(Coalesce(body.message, StatusText(status)),
                             HttpCode(status), status, Undefined)

\* handleErrorResponse: what it throws for a non-2xx response.
ErrorFromResponse(response) ==
    IF response.isJson
    THEN LET parsed == ResponseJson(response.body) IN
         IF parsed.kind = "error" THEN parsed.error
         ELSE ErrorFromJson(parsed.value, response.status)
    ELSE YorAuthErrorDetails(OrElse(response.body.text, StatusText(response.status)),
                             HttpCode(response.status), response.status, Undefined)

DoRequestCatch_AbortAsNetwork(thrown, timeout) ==
    IF thrown.kind = "YorAuthError" THEN thrown
    ELSE YorAuthErrorDetails(IF thrown.isError THEN thrown.message
                             ELSE Str("An unknown error occurred"),
                             Str("NETWORK_ERROR"), 0, Undefined)

DoRequestCatch_UnknownMessage(thrown, timeout) ==
    IF thrown.kind = "YorAuthError" THEN thrown
    ELSE IF thrown.kind = "AbortError"
    THEN YorAuthErrorDetails(<<"string", "Request timed out after ", timeout, "ms">>,
                             Str("REQUEST_TIMEOUT"), 0, Undefined)
    ELSE YorAuthErrorDetails(Str("An unknown error occurred"),
                             Str("NETWORK_ERROR"), 0, Undefined)

\* doRequest's catch block.
DoRequestCatch(thrown, timeout) ==
    IF thrown.kind = "YorAuthError" THEN thrown
    ELSE IF thrown.kind = "AbortError"
    THEN YorAuthErrorDetails(<<"string", "Request timed out after ", timeout, "ms">>,
                             Str("REQUEST_TIMEOUT"), 0, Undefined)
    ELSE YorAuthErrorDetails(IF thrown.isError THEN thrown.message
                             ELSE Str("An unknown error occurred"),
                             Str("NETWORK_ERROR"), 0, Undefined)

\* doRequest after the body has been read.
DoRequestRead(response, timeout) ==
    IF ~ResponseOk(response.status)
    THEN Rejected(DoRequestCatch(ErrorFromResponse(response), timeout))
    ELSE LET parsed == ResponseJson(response.body) IN
         IF parsed.kind = "error"
         THEN Rejected(DoRequestCatch(parsed.error, timeout))
         ELSE parsed

\* The arguments of one request() call and the configured timeout.
AttemptInputs ==
    [url : {"valid", "invalid"}, body : {"none", "json", "circular"},
     timeout : {100, 30000}]

NewAttempt(in) ==
    [phase |-> "new", in |-> in, timer |-> "unarmed", headers |-> None,
     response |-> None, failure |-> None, settled |-> Pending,
     result |-> Pending]

AttemptInit ==
    /\ \E c \in Configs :
          /\ c.refreshToken = Undefined
          /\ token = c.token
          /\ apiKey = c.apiKey
          /\ refreshToken = c.refreshToken
          /\ tokenRefreshedCallback = c.callback
    /\ isRefreshing = FALSE
    /\ refreshPromise = Null
    /\ refreshes = <<>>
    /\ pc = [r \in Req |-> "idle"]
    /\ error = [r \in Req |-> None]
    /\ awaiting = [r \in Req |-> Null]
    /\ result = [r \in Req |-> Pending]
    /\ sent = [r \in Req |-> <<>>]
    /\ at401 = [r \in Req |-> None]
    /\ observed = [r \in Req |-> None]
    /\ retryOutcome = [r \in Req |-> None]
    /\ wire = [r \in Req |-> <<>>]
    /\ att \in {NewAttempt(in) : in \in AttemptInputs}
    /\ ctor = None

SettleAttempt_LeavesTimer(a, outcome) ==
    [a EXCEPT !.phase = "settled", !.settled = outcome]

\* doRequest settles: its finally block clears the timer it armed.
SettleAttempt(a, outcome) ==
    [a EXCEPT !.phase = "settled", !.settled = outcome,
              !.timer = IF @ = "armed" THEN "cleared" ELSE @]

\* doRequest up to `await fetch(...)`: new URL(url) runs before the try block,
\* JSON.stringify(options.body) inside it.
Dispatch ==
    /\ att.phase = "new"
    /\ att' =
         IF att.in.url = "invalid"
         THEN SettleAttempt(att, Rejected(Thrown("TypeError", Str("Invalid URL"))))
         ELSE LET a == [att EXCEPT !.timer = "armed",
                                   !.headers = AuthHeaders(token, apiKey)]
              IN IF att.in.body = "circular"
                 THEN SettleAttempt(a,
                        Rejected(DoRequestCatch(
                            Thrown("TypeError", Str("Converting circular structure to JSON")),
                            att.in.timeout)))
                 ELSE [a EXCEPT !.phase = "fetching"]
    /\ UNCHANGED <<coord, ctor>>

FetchResolves_No204Check(response) ==
    /\ att.phase = "fetching"
    /\ att' =
         LET a == [att EXCEPT !.response = response] IN
         IF ResponseOk(response.status) /\ ~response.isJson
         THEN SettleAttempt(a, Resolved(Undefined))
         ELSE [a EXCEPT !.phase = "reading"]
    /\ UNCHANGED <<coord, ctor>>

\* fetch resolves with a response: 204 and a non-JSON 2xx return at once, every
\* other response has its body read first.
FetchResolves(response) ==
    /\ att.phase = "fetching"
    /\ att' =
         LET a == [att EXCEPT !.response = response] IN
         IF response.status = 204
         THEN SettleAttempt(a, Resolved(Undefined))
         ELSE IF ResponseOk(response.status) /\ ~response.isJson
         THEN SettleAttempt(a, Resolved(Undefined))
         ELSE [a EXCEPT !.phase = "reading"]
    /\ UNCHANGED <<coord, ctor>>

\* fetch rejects without a response, not because of the abort signal.
FetchRejects(failure) ==
    /\ att.phase = "fetching"
    /\ att' = SettleAttempt([att EXCEPT !.failure = failure],
                            Rejected(DoRequestCatch(failure, att.in.timeout)))
    /\ UNCHANGED <<coord, ctor>>

\* A timer that is still armed fires.  While fetch or the body read is pending
\* controller.abort() makes the pending promise reject with an AbortError;
\* after the call has ended the abort has nothing left to reject.
TimerFires ==
    /\ att.timer = "armed"
    /\ att' = IF att.phase \in {"fetching", "reading"}
              THEN SettleAttempt([att EXCEPT !.timer = "fired"],
                        Rejected(DoRequestCatch(AbortError, att.in.timeout)))
              ELSE [att EXCEPT !.timer = "fired"]
    /\ UNCHANGED <<coord, ctor>>

\* response.json() or response.text() settles and doRequest translates.
BodyRead ==
    /\ att.phase = "reading"
    /\ att' = SettleAttempt(att, DoRequestRead(att.response, att.in.timeout))
    /\ UNCHANGED <<coord, ctor>>

\* request() settles when no recovery applies: its outer catch rethrows.
RequestSettles ==
    /\ att.phase = "settled"
    /\ att.settled.kind = "error" => ~ShouldRefresh(att.settled.error, refreshToken)
    /\ att' = [att EXCEPT !.phase = "done", !.result = att.settled]
    /\ UNCHANGED <<coord, ctor>>

AttemptNext ==
    \/ Dispatch
    \/ \E response \in Responses : FetchResolves(response)
    \/ \E failure \in {Thrown("TypeError", Str("fetch failed")), ThrownValue} :
          FetchRejects(failure)
    \/ TimerFires
    \/ BodyRead
    \/ RequestSettles

AttemptSpec == AttemptInit /\ [][AttemptNext]_vars

-----------------------------------------------------------------------------
(* new YorAuth(config): required fields and the browser guard *)

\* The configurations passed to the constructor.
ConstructorConfigs ==
    [applicationId : {Undefined, Str("app")},
     baseUrl : {Undefined, Str("https://auth.example.com")},
     apiKey : {Undefined, Str(""), TheApiKey},
     token : {Undefined, AccessToken(0)},
     refreshToken : {Undefined, RefreshTokenOf(0)},
     dangerouslyAllowBrowser : {"absent", "false", "true"}]

\* Which browser globals are defined on globalThis.
Environments == [window : BOOLEAN, document : BOOLEAN]

\* What the constructor throws.
ConstructorError(name) == [kind |-> "throws", error |-> name]

YorAuthConstructor_TokenSuppresses(config, env) ==
    IF ~Truthy(config.applicationId)
    THEN ConstructorError("applicationId is required")
    ELSE IF ~Truthy(config.baseUrl)
    THEN ConstructorError("baseUrl is required")
    ELSE IF /\ Truthy(config.apiKey)
            /\ ~Truthy(config.token)
            /\ config.dangerouslyAllowBrowser # "true"
            /\ env.window /\ env.document
    THEN ConstructorError("SECURITY ERROR")
    ELSE [kind |-> "constructed"]

\* The checks of the constructor, in their order.
YorAuthConstructor(config, env) ==
    IF ~Truthy(config.applicationId)
    THEN ConstructorError("applicationId is required")
    ELSE IF ~Truthy(config.baseUrl)
    THEN ConstructorError("baseUrl is required")
    ELSE IF /\ Truthy(config.apiKey)
            /\ config.dangerouslyAllowBrowser # "true"
            /\ env.window /\ env.document
    THEN ConstructorError("SECURITY ERROR")
    ELSE [kind |-> "constructed"]

ConstructInit ==
    /\ token = Undefined
    /\ apiKey = Undefined
    /\ refreshToken = Undefined
    /\ tokenRefreshedCallback = "none"
    /\ isRefreshing = FALSE
    /\ refreshPromise = Null
    /\ refreshes = <<>>
    /\ pc = [r \in Req |-> "idle"]
    /\ error = [r \in Req |-> None]
    /\ awaiting = [r \in Req |-> Null]
    /\ result = [r \in Req |-> Pending]
    /\ sent = [r \in Req |-> <<>>]
    /\ at401 = [r \in Req |-> None]
    /\ observed = [r \in Req |-> None]
    /\ retryOutcome = [r \in Req |-> None]
    /\ wire = [r \in Req |-> <<>>]
    /\ att = None
    /\ ctor \in {[phase |-> "new", config |-> c, env |-> e, outcome |-> None] :
                    c \in ConstructorConfigs, e \in Environments}

\* new YorAuth(config): throw, or store the credentials of the configuration.
Construct ==
    /\ ctor # None
    /\ ctor.phase = "new"
    /\ LET outcome == YorAuthConstructor(ctor.config, ctor.env) IN
       /\ ctor' = [ctor EXCEPT !.phase = "done", !.outcome = outcome]
       /\ IF outcome.kind = "constructed"
          THEN /\ token' = ctor.config.token
               /\ apiKey' = ctor.config.apiKey
               /\ refreshToken' = ctor.config.refreshToken
          ELSE UNCHANGED creds
    /\ UNCHANGED <<tokenRefreshedCallback, isRefreshing, refreshPromise,
                   refreshes, pc, error, awaiting, result, sent, at401,
                   observed, retryOutcome, wire, att>>

ConstructNext == Construct

ConstructSpec == ConstructInit /\ [][ConstructNext]_vars

-----------------------------------------------------------------------------
(* Helpers of the properties *)

RefreshIds == 1..Len(refreshes)

OutstandingRefreshes == {id \in RefreshIds : refreshes[id].settled = Pending}

OwnedBy(r) == {id \in RefreshIds : refreshes[id].owner = r}

\* r observed a 401 on its first attempt while a refresh token was available.
Saw401WithRefreshToken(r) ==
    /\ at401[r].kind = "seen"
    /\ at401[r].rt # Undefined

\* The 401 error of r's first attempt, as the server worded it.
First401(r) == YorAuthError(ReqTag(r, 1), <<"CODE", 401>>, 401)

RefreshSucceededFor(r) ==
    /\ observed[r] # None
    /\ observed[r].outcome.kind = "value"

RefreshFailedFor(r) ==
    /\ observed[r] # None
    /\ observed[r].outcome.kind = "error"

-----------------------------------------------------------------------------
(* Properties *)

\* C1: at any instant at most one refresh network call is outstanding: no
\* second refresh call is started while an earlier one has not settled.
C1_AtMostOneRefreshOutstanding == Cardinality(OutstandingRefreshes) <= 1

\* C1 witness: a second request observed its 401 while a refresh call was
\* outstanding, and waits on that call.
C1_Witness ==
    \E r \in Req :
        /\ pc[r] = "joined"
        /\ refreshes[awaiting[r]].settled = Pending
        /\ refreshes[awaiting[r]].owner # r

\* C2 as stated: while all requests are in flight together (all were issued
\* with the same credentials and none has settled: each waits on a refresh
\* call or on its retry) and each has received its 401 with a refresh token
\* available, one refresh call has been issued in total.  Refresh calls that
\* exchange the same refresh token twice are left aside here.
C2_ExactlyOneRefreshInTotal ==
    ( /\ \A r \in Req : /\ Saw401WithRefreshToken(r)
                        /\ pc[r] \in {"owner", "joined", "retry"}
                        /\ sent[r][1] = sent[1][1]
      /\ \A i, j \in RefreshIds : i # j => refreshes[i].body # refreshes[j].body )
        => Len(refreshes) = 1

\* C2 amended: a request that observes its 401 while a refresh is pending
\* joins it and starts none; a request that observes its 401 while none is
\* pending starts exactly one; every waiter observes the outcome of the
\* refresh it waits on, and retries once exactly when that outcome is a
\* success and the update hook returned.
C2_OneRefreshPerPendingWindow ==
    /\ \A r \in Req : Saw401WithRefreshToken(r) =>
          /\ at401[r].handle # Null =>
                /\ OwnedBy(r) = {}
                /\ awaiting[r] = at401[r].handle
          /\ at401[r].handle = Null => OwnedBy(r) = {awaiting[r]}
          /\ observed[r] # None =>
                /\ observed[r].id = awaiting[r]
                /\ observed[r].outcome = refreshes[awaiting[r]].settled
          /\ Len(sent[r]) = 2 <=>
                (RefreshSucceededFor(r) /\ tokenRefreshedCallback # "throws")
    /\ Len(refreshes) =
          Cardinality({r \in Req : Saw401WithRefreshToken(r)
                                     /\ at401[r].handle = Null})

\* C2 witness: two requests waited on one refresh call, saw it succeed and
\* each dispatched its retry.
C2_Witness ==
    \E r, q \in Req :
        /\ r # q
        /\ awaiting[r] # Null
        /\ awaiting[r] = awaiting[q]
        /\ RefreshSucceededFor(r) /\ RefreshSucceededFor(q)
        /\ Len(sent[r]) = 2 /\ Len(sent[q]) = 2

\* C3: after a 401 and a successful refresh, request() settles with the
\* retry's own outcome: its value, or the error the retry itself produced.
C3_ResultIsRetryOutcome ==
    \A r \in Req :
        (pc[r] = "done" /\ RefreshSucceededFor(r) /\ retryOutcome[r] # None)
            => result[r] = DoRequest(ReqTag(r, 2), retryOutcome[r])

\* C4: when the refresh fails, request() fails with the first attempt's own
\* 401 error (message, code, status), not with the refresh call's error.
C4_RefreshFailureYieldsOriginal401 ==
    \A r \in Req :
        RefreshFailedFor(r) =>
            /\ pc[r] = "done"
            /\ result[r] = Rejected(First401(r))
            /\ result[r].error # observed[r].outcome.error

\* C4 witness: a request settled after the refresh endpoint answered 401.
C4_Witness ==
    \E r \in Req :
        /\ RefreshFailedFor(r)
        /\ observed[r].outcome.error.kind = "YorAuthError"
        /\ observed[r].outcome.error.status = 401
        /\ pc[r] = "done"

\* C5: onRefreshSuccess is invoked once per successful refresh call, however
\* many requests wait on it, and before any retry that follows it.
C5_HookOncePerRefresh ==
    /\ \A id \in RefreshIds : refreshes[id].hooks <= 1
    /\ \A r \in Req : Len(sent[r]) = 2 => refreshes[awaiting[r]].hooks >= 1

\* C6: a 401 observed while no refresh token is available fails the request
\* with that 401 after one network call: no refresh call, no retry.
C6_NoRefreshTokenNoRecovery ==
    \A r \in Req :
        (at401[r].kind = "seen" /\ at401[r].rt = Undefined) =>
            /\ pc[r] = "done"
            /\ result[r] = Rejected(First401(r))
            /\ Len(sent[r]) = 1
            /\ awaiting[r] = Null
            /\ OwnedBy(r) = {}

\* C6 witness: a request got a 401 with no refresh token set.
C6_Witness ==
    \E r \in Req :
        /\ at401[r].kind = "seen"
        /\ at401[r].rt = Undefined
        /\ result[r].kind = "error"

\* C7: a first attempt that fails with anything but a 401 makes one network
\* call and fails with that error unchanged: no refresh call, no retry.
C7_OtherErrorsPropagate ==
    \A r \in Req :
        (error[r] # None /\ error[r].status # 401) =>
            /\ pc[r] = "done"
            /\ result[r] = Rejected(error[r])
            /\ error[r].message \in {ReqTag(r, 1), <<"timed out", ReqTag(r, 1)>>,
                                      <<"network", ReqTag(r, 1)>>}
            /\ Len(sent[r]) = 1
            /\ awaiting[r] = Null
            /\ OwnedBy(r) = {}

\* C7 witness: with a refresh token available, one request failed with a 500
\* and another with a timeout.
C7_Witness ==
    /\ refreshToken # Undefined
    /\ \E r, q \in Req :
          /\ result[r] = Rejected(YorAuthError(ReqTag(r, 1), <<"CODE", 500>>, 500))
          /\ result[q].kind = "error"
          /\ result[q].error.code = "REQUEST_TIMEOUT"

\* C8: a request is retried at most once: it dispatches its own URL at most
\* twice, starts at most one refresh, and settles when its retry settles,
\* also when the retry answers 401.
C8_AtMostOneRetry ==
    \A r \in Req :
        /\ Len(sent[r]) <= 2
        /\ Cardinality(OwnedBy(r)) <= 1
        /\ retryOutcome[r] # None => pc[r] = "done"

\* C8 witness: a retry was answered 401 and the request settled.
C8_Witness ==
    \E r \in Req :
        /\ retryOutcome[r] = Response(401, TRUE, "error")
        /\ pc[r] = "done"
        /\ refreshToken # Undefined

\* C9: every retry carries Authorization: Bearer <the access token of the
\* refresh it waited on> and never the token its first attempt carried.
C9_RetryCarriesNewToken ==
    \A r \in Req :
        Len(sent[r]) = 2 =>
            /\ RefreshSucceededFor(r)
            /\ sent[r][2].Authorization =
                   <<"Bearer", observed[r].outcome.value.accessToken>>
            /\ sent[r][2].XApiKey = Undefined
            /\ sent[r][2] # sent[r][1]

\* C9 witness: two requests waited on the same refresh and both retried.
C9_Witness ==
    \E r, q \in Req :
        /\ r # q
        /\ Len(sent[r]) = 2 /\ Len(sent[q]) = 2
        /\ observed[r].id = observed[q].id

\* C10: the handle is set exactly while the request that started the refresh
\* has not resumed; once the refresh call has settled the handle becomes
\* absent again; every request that waited on a refresh receives that
\* refresh's result.
C10_HandleLifecycle ==
    /\ [](refreshPromise # Null =>
            /\ refreshPromise \in RefreshIds
            /\ pc[refreshes[refreshPromise].owner] = "owner"
            /\ awaiting[refreshes[refreshPromise].owner] = refreshPromise)
    /\ [](\A r \in Req : pc[r] = "owner" => refreshPromise = awaiting[r])
    /\ [](\A r \in Req : observed[r] # None =>
            /\ observed[r].id = awaiting[r]
            /\ observed[r].outcome = refreshes[awaiting[r]].settled
            /\ observed[r].outcome # Pending)
    /\ (refreshPromise # Null /\ refreshes[refreshPromise].settled # Pending)
          ~> (refreshPromise = Null)

\* C10 witness: a refresh failed, its handle was cleared, and a later 401
\* started a new refresh.
C10_Witness ==
    /\ Len(refreshes) >= 2
    /\ refreshes[1].settled.kind = "error"
    /\ refreshPromise = 2

\* The step in which the timer of one of r's own network calls expires.
FirstAttemptTimesOut(r) ==
    /\ pc[r] = "first"
    /\ error'[r] # error[r]
    /\ error'[r].code = "REQUEST_TIMEOUT"

RetryTimesOut(r) ==
    /\ pc[r] = "retry"
    /\ retryOutcome'[r] = Aborted

\* The step leaves every other request and every refresh call as they were.
OnlyTouches(r) ==
    /\ refreshes' = refreshes
    /\ refreshPromise' = refreshPromise
    /\ \A q \in Req \ {r} :
          /\ pc'[q] = pc[q]
          /\ result'[q] = result[q]
          /\ error'[q] = error[q]
          /\ retryOutcome'[q] = retryOutcome[q]

\* C11: when the timeout of one of a request's network calls (first attempt or
\* retry) expires, that request fails with a timeout error (REQUEST_TIMEOUT,
\* status 0), and no refresh call and no other request is aborted or failed.
C11_TimeoutFailsOnlyItsRequest ==
    [][\A r \in Req :
          (FirstAttemptTimesOut(r) \/ RetryTimesOut(r)) =>
              /\ OnlyTouches(r)
              /\ result'[r].kind = "error"
              /\ result'[r].error.code = "REQUEST_TIMEOUT"
              /\ result'[r].error.status = 0]_vars

\* C12: a request() call ends with the decoded success value or with a
\* YorAuthError; no other failure reaches the caller, whatever the URL, the
\* request body and the response body are.
C12_ValueOrYorAuthError ==
    att.phase = "done" =>
        \/ att.result.kind = "value"
        \/ /\ att.result.kind = "error"
           /\ att.result.error.kind = "YorAuthError"

\* The call got a non-2xx response and its timer did not expire.
ErrorResponseTranslated ==
    /\ att.phase = "done"
    /\ att.response # None
    /\ ~ResponseOk(att.response.status)
    /\ att.timer # "fired"

\* C13: for every response with a status outside [200,300), whatever its
\* content type and body, request() fails with a YorAuthError whose status is
\* the HTTP status code, never the status 0 of a timeout or network failure.
C13_StatusIsHttpStatus ==
    ErrorResponseTranslated =>
        /\ att.result.kind = "error"
        /\ att.result.error.kind = "YorAuthError"
        /\ att.result.error.status = att.response.status
        /\ att.result.error.status # 0

\* The call got a non-2xx response whose JSON body is an object.
JsonErrorTranslated ==
    /\ ErrorResponseTranslated
    /\ att.response.isJson
    /\ att.response.body.raw = "json"
    /\ att.response.body.value # JsonNull

\* A field of the body that is there and is not null.
Present(v) == ~Nullish(v)

\* The error the four shapes give when they are tried in their fixed order;
\* validation says whether shape (2), `message` and `errors`, applies.
ErrorByShapeOrder(body, status, validation) ==
    IF TypeOf(body.error) = "object" /\ body.error # JsonNull
    THEN [kind |-> "YorAuthError",
          message |-> IF Present(body.error[2].message)
                      THEN body.error[2].message ELSE StatusText(status),
          code |-> IF Present(body.error[2].code)
                   THEN body.error[2].code ELSE HttpCode(status),
          status |-> status,
          details |-> body.error[2].details]
    ELSE IF validation
    THEN [kind |-> "YorAuthError", message |-> body.message,
          code |-> Str("VALIDATION_ERROR"), status |-> status,
          details |-> body.errors]
    ELSE IF TypeOf(body.error) = "string"
    THEN [kind |-> "YorAuthError",
          message |-> IF Present(body.error_description)
                      THEN body.error_description ELSE body.error,
          code |-> body.error, status |-> status, details |-> Undefined]
    ELSE [kind |-> "YorAuthError",
          message |-> IF Present(body.message)
                      THEN body.message ELSE StatusText(status),
          code |-> HttpCode(status), status |-> status, details |-> Undefined]

EndedWithTimeoutError ==
    /\ att.settled.kind = "error"
    /\ att.settled.error.kind = "YorAuthError"
    /\ att.settled.error.code = Str("REQUEST_TIMEOUT")
    /\ att.settled.error.status = 0

\* C15: when the timer expires before the call has completed, the call is
\* aborted and the attempt fails with a YorAuthError with code REQUEST_TIMEOUT,
\* status 0 and a message holding the configured timeout; an attempt that
\* completes before its timer expires never ends with the timeout error.
C15_TimeoutError ==
    /\ att.timer = "fired" =>
          /\ att.phase \in {"settled", "done"}
          /\ EndedWithTimeoutError
          /\ Len(att.settled.error.message) = 4
          /\ att.settled.error.message[3] = att.in.timeout
          /\ att.settled.error.details = Undefined
    /\ (att.phase \in {"settled", "done"} /\ att.timer # "fired") =>
          ~EndedWithTimeoutError

\* C15 witness: the timer expired while the body of a received response was
\* still being read.
C15_Witness ==
    /\ att.timer = "fired"
    /\ att.phase = "done"
    /\ att.response # None
    /\ att.result.error.code = Str("REQUEST_TIMEOUT")

\* C16: a call that fails without a response, and not by its timer, ends with
\* a YorAuthError with code NETWORK_ERROR and status 0 whose message is the
\* failure's own message when the failure is an Error and "An unknown error
\* occurred" otherwise; it is never the timeout error.
C16_NetworkError ==
    att.failure # None =>
        /\ att.phase \in {"settled", "done"}
        /\ att.settled =
              Rejected([kind |-> "YorAuthError",
                        message |-> IF att.failure.isError
                                    THEN att.failure.message
                                    ELSE Str("An unknown error occurred"),
                        code |-> Str("NETWORK_ERROR"),
                        status |-> 0,
                        details |-> Undefined])
        /\ ~EndedWithTimeoutError
        /\ att.timer = "cleared"

\* C16 witness: both kinds of failure were reported, here the Error.
C16_Witness ==
    /\ att.phase = "done"
    /\ att.failure # None
    /\ att.failure.isError
    /\ att.result.error.message = Str("fetch failed")

\* The headers a call carries according to the precedence of the credentials.
BearerOrApiKey(tok, key) ==
    [Authorization |-> IF tok # Undefined THEN <<"Bearer", tok>> ELSE Undefined,
     XApiKey |-> IF tok = Undefined /\ key # Undefined THEN key ELSE Undefined]

\* C17: every dispatched network call (first attempt, refresh call, retry)
\* carries at most one of the two authentication headers, chosen from the
\* credentials held when the call is built: Authorization: Bearer <token>
\* alone when a token is set, X-API-Key alone when only an API key is set,
\* neither when neither is set.
C17_OneAuthHeader ==
    /\ [](\A r \in Req : \A i \in 1..Len(sent[r]) :
            ~(sent[r][i].Authorization # Undefined /\ sent[r][i].XApiKey # Undefined))
    /\ [](\A id \in RefreshIds :
            ~(refreshes[id].headers.Authorization # Undefined
                /\ refreshes[id].headers.XApiKey # Undefined))
    /\ [][/\ \A r \in Req :
               sent'[r] # sent[r] =>
                   /\ Len(sent'[r]) = Len(sent[r]) + 1
                   /\ SubSeq(sent'[r], 1, Len(sent[r])) = sent[r]
                   /\ sent'[r][Len(sent'[r])] = BearerOrApiKey(token', apiKey')
          /\ Len(refreshes') # Len(refreshes) =>
                   /\ Len(refreshes') = Len(refreshes) + 1
                   /\ refreshes'[Len(refreshes')].headers =
                         BearerOrApiKey(token', apiKey')]_vars

\* C17 witness: with only an API key set the first attempt and the refresh
\* call carried X-API-Key; after the refresh stored a token the retry carried
\* Authorization: Bearer and no X-API-Key.
C17_Witness ==
    \E r \in Req :
        /\ Len(sent[r]) = 2
        /\ apiKey # Undefined
        /\ sent[r][1] = [Authorization |-> Undefined, XApiKey |-> apiKey]
        /\ refreshes[awaiting[r]].headers = sent[r][1]
        /\ sent[r][2] = [Authorization |-> <<"Bearer", token>>, XApiKey |-> Undefined]

\* C18: a non-2xx response with an empty body, whatever its content type,
\* makes the request fail with a YorAuthError whose code is HTTP_<status> and
\* whose message is the response's status text.
C18_EmptyBodyGivesStatusText ==
    (ErrorResponseTranslated /\ att.response.body = EmptyBody) =>
        /\ att.result.kind = "error"
        /\ att.result.error.kind = "YorAuthError"
        /\ att.result.error.code = HttpCode(att.response.status)
        /\ att.result.error.message = StatusText(att.response.status)
        /\ att.result.error.status = att.response.status

\* C19: the credentials change only in a step in which onRefreshSuccess is
\* invoked for a refresh call that succeeded, and then only the token and the
\* refresh token change, to the pair that refresh produced; when the refresh
\* call fails or no refresh is attempted the hook is not invoked and token,
\* API key and refresh token stay as they were.
C19_CredentialsChangeOnlyByHook ==
    [][/\ creds' # creds =>
            \E id \in RefreshIds :
                /\ refreshes[id].settled.kind = "value"
                /\ refreshes'[id].hooks = refreshes[id].hooks + 1
                /\ token' = refreshes[id].settled.value.accessToken
                /\ refreshToken' = refreshes[id].settled.value.refreshToken
                /\ apiKey' = apiKey
       /\ \A id \in RefreshIds :
            refreshes'[id].hooks # refreshes[id].hooks =>
                /\ refreshes[id].settled.kind = "value"
                /\ \E r \in Req : awaiting[r] = id /\ observed'[r] # None
       /\ \A r \in Req :
            (pc'[r] = "done" /\ pc[r] # "done"
                /\ (observed'[r] = None \/ observed'[r].outcome.kind = "error"))
              => /\ creds' = creds
                 /\ \A id \in RefreshIds :
                       refreshes'[id].hooks = refreshes[id].hooks]_vars

\* C19 witness: a request settled after its refresh call failed, the hook was
\* never invoked for that refresh and the credentials are the initial ones.
C19_Witness ==
    \E r \in Req :
        /\ pc[r] = "done"
        /\ RefreshFailedFor(r)
        /\ refreshes[observed[r].id].hooks = 0
        /\ token = AccessToken(0)
        /\ refreshToken = RefreshTokenOf(0)

\* C20: when an automatic refresh succeeded and a callback is registered with
\* onTokenRefreshed, the callback is invoked with the refresh outcome, and
\* while it runs getToken() and getRefreshToken() return the outcome's new
\* access token and new refresh token; the API key is the one set before.
C20_CallbackSeesNewTokens ==
    \A r \in Req :
        (RefreshSucceededFor(r) /\ tokenRefreshedCallback # "none") =>
            /\ observed[r].callback # None
            /\ observed[r].callback.arg = observed[r].outcome.value
            /\ observed[r].callback.getToken =
                  observed[r].outcome.value.accessToken
            /\ observed[r].callback.getRefreshToken =
                  observed[r].outcome.value.refreshToken
            /\ observed[r].callback.getApiKey = apiKey

\* C20 witness: a refresh succeeded on a client with a registered callback and
\* the request went on to its retry.
C20_Witness ==
    \E r \in Req :
        /\ RefreshSucceededFor(r)
        /\ tokenRefreshedCallback = "returns"
        /\ observed[r].callback # None
        /\ Len(sent[r]) = 2
        /\ observed[r].callback.getToken # AccessToken(0)

SuccessResponseHandled ==
    /\ att.phase = "done"
    /\ att.response # None
    /\ ResponseOk(att.response.status)
    /\ att.timer # "fired"

\* No 2xx response ends in an error that carries the HTTP status.
NoErrorWithSuccessStatus ==
    SuccessResponseHandled =>
        \/ att.result.kind = "value"
        \/ att.result.error.status # att.response.status

\* Status 204 and non-JSON 2xx responses give an absent value.
AbsentValueWithoutJson ==
    (SuccessResponseHandled
        /\ (att.response.status = 204 \/ ~att.response.isJson))
      => att.result = Resolved(Undefined)

\* C22 as stated: every 2xx response other than 204 with a JSON content type
\* makes request() return the parsed body unchanged; 204 and non-JSON 2xx
\* responses give an absent value; no 2xx response gives an error with the
\* HTTP status.
C22_ReturnsParsedBody ==
    /\ (SuccessResponseHandled /\ att.response.status # 204
            /\ att.response.isJson)
          => /\ att.result.kind = "value"
             /\ att.response.body.raw = "json"
                   => att.result.value = att.response.body.value
    /\ AbsentValueWithoutJson
    /\ NoErrorWithSuccessStatus

\* C22 amended: such a response makes request() return the parsed body
\* unchanged when the body parses as JSON, and fail with NETWORK_ERROR and
\* status 0 when it does not (empty or malformed body).
C22_ReturnsParsedBody_WhenParsable ==
    /\ (SuccessResponseHandled /\ att.response.status # 204
            /\ att.response.isJson)
          => IF att.response.body.raw = "json"
             THEN att.result = Resolved(att.response.body.value)
             ELSE /\ att.result.kind = "error"
                  /\ att.result.error.kind = "YorAuthError"
                  /\ att.result.error.code = Str("NETWORK_ERROR")
                  /\ att.result.error.status = 0
    /\ AbsentValueWithoutJson
    /\ NoErrorWithSuccessStatus

\* C22 witness: a 204 with a JSON content type and a JSON body gave the
\* absent value (another run returns a parsed 200 body).
C22_Witness ==
    /\ SuccessResponseHandled
    /\ att.response.status = 204
    /\ att.response.isJson
    /\ att.response.body.raw = "json"
    /\ att.result = Resolved(Undefined)

\* The configuration holds an API key, both browser globals are defined and
\* dangerouslyAllowBrowser is not true.
ApiKeyInBrowser ==
    /\ ctor.config.apiKey # Undefined
    /\ ctor.config.apiKey # Str("")
    /\ ctor.env.window
    /\ ctor.env.document
    /\ ctor.config.dangerouslyAllowBrowser # "true"

RequiredFieldsGiven ==
    /\ ctor.config.applicationId # Undefined
    /\ ctor.config.baseUrl # Undefined

\* C23: constructing a client with an API key while window and document are
\* defined throws the security error unless dangerouslyAllowBrowser is true
\* (no client is constructed; a configuration lacking a required field fails
\* on that field first), whether or not a token is given; the security error
\* is thrown in no other case.
C23_BrowserGuard ==
    ctor.phase = "done" =>
        /\ ApiKeyInBrowser => ctor.outcome.kind = "throws"
        /\ (ApiKeyInBrowser /\ RequiredFieldsGiven)
              => ctor.outcome = ConstructorError("SECURITY ERROR")
        /\ ctor.outcome = ConstructorError("SECURITY ERROR") => ApiKeyInBrowser
        /\ (~ApiKeyInBrowser /\ RequiredFieldsGiven)
              => /\ ctor.outcome.kind = "constructed"
                 /\ apiKey = ctor.config.apiKey
                 /\ token = ctor.config.token

\* C23 witness: an API key together with a token in a browser was refused.
C23_Witness ==
    /\ ctor.phase = "done"
    /\ ApiKeyInBrowser
    /\ ctor.config.token # Undefined
    /\ ctor.outcome = ConstructorError("SECURITY ERROR")

\* C24: no refresh call carries a refresh token that an earlier successful
\* refresh call of the same client has already exchanged.
C24_NoExchangedRefreshTokenReused ==
    \A id \in RefreshIds : \A earlier \in 1..(id - 1) :
        refreshes[earlier].settled.kind = "value" =>
            refreshes[id].body.refresh_token # refreshes[earlier].body.refresh_token

\* The network calls dispatched so far: every dispatch of a request to its own
\* URL, and every refresh call.
NetworkCalls ==
    {<<"request", r, i>> : r \in {q \in Req : Len(sent[q]) >= 1}, i \in 1..1}
        \cup {<<"request", r, i>> : r \in {q \in Req : Len(sent[q]) >= 2}, i \in 2..2}
        \cup {<<"refresh", id, 0>> : id \in RefreshIds}

\* The request() calls issued so far.
Issued == {r \in Req : pc[r] # "idle"}

\* C25: provided every network call settles or is cut off by its timer, every
\* request() call eventually settles (from some point on every call that was
\* issued has settled); a call dispatches at most two network calls to its own
\* URL and starts at most one refresh call, so N requests cause at most 3N
\* network calls.
C25_SettlesWithinThreeCalls ==
    /\ [](\A r \in Req :
            /\ Len(sent[r]) <= 2
            /\ Cardinality(OwnedBy(r)) <= 1)
    /\ [](Cardinality(NetworkCalls) <= 3 * Cardinality(Issued))
    /\ [](\A r \in Req : pc[r] = "done" <=> result[r] # Pending)
    /\ <>[](\A r \in Req : pc[r] \in {"idle", "done"})

\* C25 witness: every request has settled, one of them after three network
\* calls (first attempt, its own refresh call, retry).
C25_Witness ==
    /\ \A r \in Req : pc[r] = "done"
    /\ \E r \in Req : Len(sent[r]) = 2 /\ Cardinality(OwnedBy(r)) = 1

\* The refresh endpoint answered 401 to the refresh call id.
RefreshAnswered401(id) ==
    /\ refreshes[id].settled.kind = "error"
    /\ refreshes[id].settled.error.kind = "YorAuthError"
    /\ refreshes[id].settled.error.status = 401

\* C26: the refresh call is not itself recovered: in the step in which a
\* refresh call fails, with the refresh endpoint's 401 or otherwise, no refresh
\* call is started and nothing is dispatched; a settled refresh is never run
\* again; and every request that waited on a refresh answered 401 has failed
\* without a retry and without the hook being called.
C26_RefreshNotRecovered ==
    /\ [][\A id \in RefreshIds :
            /\ (refreshes[id].settled = Pending
                    /\ refreshes'[id].settled.kind = "error")
                  => /\ Len(refreshes') = Len(refreshes)
                     /\ refreshPromise' = refreshPromise
                     /\ sent' = sent
                     /\ pc' = pc
            /\ refreshes[id].settled # Pending
                  => refreshes'[id].settled = refreshes[id].settled]_vars
    /\ [](\A r \in Req :
            (observed[r] # None /\ RefreshAnswered401(observed[r].id)) =>
                /\ pc[r] = "done"
                /\ result[r].kind = "error"
                /\ Len(sent[r]) = 1
                /\ refreshes[observed[r].id].hooks = 0)

\* C26 witness: two requests waited on a refresh call that was answered 401
\* and both have failed; no second refresh call was started.
C26_Witness ==
    /\ Len(refreshes) = 1
    /\ RefreshAnswered401(1)
    /\ \E r, q \in Req :
          /\ r # q
          /\ pc[r] = "done" /\ pc[q] = "done"
          /\ observed[r] # None /\ observed[q] # None
          /\ observed[r].id = 1 /\ observed[q].id = 1

\* C27: the timer an attempt armed is cleared on every exit path of the
\* attempt: once the attempt has ended, and so once request() has settled, its
\* timer is not pending any more, and a timer expires only while its attempt
\* is still in flight.
C27_TimerClearedOnEveryExit ==
    /\ [](att.phase \in {"settled", "done"} => att.timer # "armed")
    /\ [](att.timer = "cleared" => att.phase \in {"settled", "done"})
    /\ [][(att'.timer = "fired" /\ att.timer # "fired")
            => att.phase \in {"fetching", "reading"}]_vars
    /\ [][att.timer \in {"cleared", "fired"} => att'.timer = att.timer]_vars

\* C27 witness: an attempt that ended with an HTTP error has its timer cleared.
C27_Witness ==
    /\ att.phase = "done"
    /\ att.timer = "cleared"
    /\ att.response # None
    /\ att.response.status = 503
    /\ att.result.kind = "error"

\* C28: when the hook run after a successful refresh throws, the waiting
\* request fails with the 401 error of its own first attempt and has made one
\* network call only: no retry is dispatched, and what the hook threw is not
\* what the caller gets.
C28_HookFailureYieldsOriginal401 ==
    \A r \in Req :
        (RefreshSucceededFor(r) /\ tokenRefreshedCallback = "throws") =>
            /\ pc[r] = "done"
            /\ result[r] = Rejected(First401(r))
            /\ result[r].error.kind # "CallbackError"
            /\ Len(sent[r]) = 1
            /\ Len(wire[r]) = 1

\* C28 witness: a request got a successful refresh result, the registered
\* callback threw, and the request has settled.
C28_Witness ==
    \E r \in Req :
        /\ RefreshSucceededFor(r)
        /\ tokenRefreshedCallback = "throws"
        /\ refreshes[observed[r].id].hooks >= 1
        /\ result[r] # Pending

\* A 2xx answer of the refresh endpoint that carries no `data` envelope: a 204,
\* a 2xx without a JSON content type, or 2xx JSON without `data`.
SuccessWithoutData(o) ==
    /\ o.kind = "response"
    /\ ResponseOk(o.status)
    /\ o.status = 204 \/ ~o.isJson \/ o.body # "data"

\* C29: a refresh answer counts as a success only if it is 2xx JSON carrying
\* `data`.  A 204, a 2xx that is not JSON and 2xx JSON without `data` make
\* the refresh fail; for such a failed refresh onRefreshSuccess is not called,
\* and every request that waited on it has failed with its own first 401
\* after a single network call.
C29_RefreshWithoutDataFails ==
    /\ \A id \in 1..NumReq, o \in RefreshOutcomes :
          /\ SuccessWithoutData(o) => DoRefresh(id, o) = Rejected(TypeError)
          /\ DoRefresh(id, o).kind = "value" =>
                o = Response(200, TRUE, "data")
    /\ \A id \in RefreshIds :
          refreshes[id].settled = Rejected(TypeError) =>
              /\ refreshes[id].hooks = 0
              /\ \A r \in Req :
                    (observed[r] # None /\ observed[r].id = id) =>
                        /\ pc[r] = "done"
                        /\ result[r] = Rejected(First401(r))
                        /\ Len(sent[r]) = 1
                        /\ Len(wire[r]) = 1

\* C29 witness: a refresh failed for want of `data`, and a request that waited
\* on it has settled.
C29_Witness ==
    \E r \in Req :
        /\ observed[r] # None
        /\ observed[r].outcome = Rejected(TypeError)
        /\ refreshes[observed[r].id].settled = Rejected(TypeError)
        /\ pc[r] = "done"

\* r and q are different requests that waited on the same refresh call, and
\* that call failed.
SharedFailedRefresh(r, q) ==
    /\ r # q
    /\ RefreshFailedFor(r)
    /\ RefreshFailedFor(q)
    /\ observed[r].id = observed[q].id

\* C30: requests that waited on one shared refresh that failed each fail with
\* the 401 error of their own first attempt (its message and its code): not
\* with the 401 of the other request, and not with the error of the refresh.
C30_EachWaiterGetsItsOwn401 ==
    \A r, q \in Req :
        SharedFailedRefresh(r, q) =>
            /\ result[r] = Rejected(First401(r))
            /\ result[r].error = error[r]
            /\ result[r].error.message = ReqTag(r, 1)
            /\ result[r].error # First401(q)
            /\ result[r].error # refreshes[observed[r].id].settled.error

\* C30 witness: two requests waited on the same refresh call, it failed, and
\* both have settled.
C30_Witness ==
    \E r, q \in Req :
        /\ SharedFailedRefresh(r, q)
        /\ refreshes[observed[r].id].owner = r
        /\ pc[r] = "done"
        /\ pc[q] = "done"
        /\ result[q] = Rejected(First401(q))

====
